---- MODULE Spec2Model ----
(***************************************************************************)
(* Model of the full-duplex audio core of App (src/components/             *)
(* ScreenStream.tsx, the App component) and of src/utils/audioUtils.ts.    *)
(*                                                                         *)
(* Time is counted in sample periods of the 24000 Hz output context, so    *)
(* that audioBuffer.duration (sampleCount / 24000 s) is sampleCount units  *)
(* and 0.05 s is 1200 units.  Gains are counted in thousandths, so that    *)
(* 0.7 is 700.                                                             *)
(*                                                                         *)
(* Scheduling: the browser runs one task at a time (a clock advance, an    *)
(* 'ended' event, a click on the session button, a socket open/close, the  *)
(* continuation of startSession after one of its awaits);                  *)
(* the two awaits of onmessage (handleAgentAction, decodeAudioData) are on *)
(* async functions that contain no await themselves, so their             *)
(* continuations are microtasks that run first-in first-out before the     *)
(* next task.  onmessage is invoked by the connection library; nothing in  *)
(* the source serialises its invocations, so a further message may be      *)
(* delivered while earlier handlers are still suspended.                   *)
(***************************************************************************)
EXTENDS Integers, Sequences, FiniteSets, TLC

VARIABLES
    status,            \* useState status: "DISCONNECTED" | "CONNECTING" | "CONNECTED"
    stage,             \* stage[s]: position of invocation s of startSession
    activeSessionRef,  \* 0 = null, else the invocation whose session it holds
    audioContextRef,   \* 0 = null, else the number of the live context pair
    clock,             \* clock[c] = currentTime of context pair c
    systemGainRef,     \* NoNode = null, else the automation of systemGain.gain
    nextStartTimeRef,  \* TimelineCursor
    audioSourcesRef,   \* ActivePlaybackSet: ids of the sources in the Set
    sources,           \* every AudioBufferSourceNode created, by id
    isModelSpeaking,   \* useState isModelSpeaking
    microtasks,        \* suspended onmessage handlers, in resumption order
    arrivals,          \* number of messages delivered so far
    schedLog,          \* history: the last two source.start calls, in call order
    idleGapSeen,       \* history: a cursor check since the last source.start call
                       \* found the cursor behind the output clock
    interruptedAt,     \* history: arrival number of the last interruption handled
    error,             \* useState error ("none" = null)
    micStreams,        \* invocations whose microphone stream has live tracks
    graph,             \* connections of the input contexts' audio nodes
    closedCtx,         \* context pairs on which close() was called
    mixerRef,          \* 0 = null, else the invocation that made the mixer
    screenStreamRef,   \* 0 = null, else the number of the stored display stream
    screenAudioSourceRef, \* 0 = null, else the number of the secondary source node
    screenNodes,       \* every MediaStreamAudioSourceNode made for a display stream
    displayStreams,    \* every stream getDisplayMedia returned
    isSharingScreen,   \* useState isSharingScreen
    hasSystemAudio,    \* useState hasSystemAudio
    capture,           \* the current run of the ScreenStream effect
    captured,          \* number of onaudioprocess callbacks so far
    sentLog,           \* history: the sendRealtimeInput calls, in call order
    decodeInput,       \* the arguments data and numChannels of decodeAudioData
    decodeResult,      \* what the call returned or threw
    utilArgs,          \* the arguments of one call of another function of audioUtils.ts
    utilResult         \* what that call returned

sessionVars == <<status, stage, activeSessionRef, audioContextRef>>

playbackVars == <<clock, systemGainRef, nextStartTimeRef, audioSourcesRef, sources,
                  isModelSpeaking, microtasks, arrivals, schedLog, idleGapSeen, interruptedAt>>

graphVars == <<micStreams, graph, closedCtx, mixerRef>>

screenVars == <<screenStreamRef, screenAudioSourceRef, screenNodes, displayStreams,
                isSharingScreen, hasSystemAudio, capture>>

sendVars == <<captured, sentLog>>

\* The argument and the outcome of one call of decodeAudioData.
decodeVars == <<decodeInput, decodeResult>>

\* The arguments and the outcome of one call of encodeAudio / decodeAudio,
\* createPcmBlob or downsampleTo16k.
utilVars == <<utilArgs, utilResult>>

vars == <<sessionVars, playbackVars, error, graphVars, screenVars, sendVars,
          decodeVars, utilVars>>

(***************************************************************************)
(* Bounds of the model.                                                    *)
(***************************************************************************)
MaxMsgs == 3
MaxPending == 2
MaxTicks == 1
MaxSessions == 2
MaxStarts == 3
MaxShares == 2
MaxBlocks == 2
MaxBytes == 8
MaxSample == 66000
MaxFrames == 5

(***************************************************************************)
(* Program constants.                                                      *)
(***************************************************************************)
Lookahead == 1200
DuckRamp == 1200
RestoreRamp == 4800
NominalGain == 700

Quantum == Lookahead
FrameSizes == {1200, 4096}

NoNode == [node |-> FALSE]

Max(a, b) == IF a >= b THEN a ELSE b

(***************************************************************************)
(* AudioParam automation.  A node holds the last request made on its gain: *)
(* the value v0 set at t0 and the value v1 reached at t1 (t0 = t1 and      *)
(* v0 = v1 for a direct set), and in `kept` the ends of the earlier ramps  *)
(* that the cancelScheduledValues of later requests left in place.         *)
(***************************************************************************)
GainNode(v0, v1, t0, t1) ==
    [node |-> TRUE, v0 |-> v0, v1 |-> v1, t0 |-> t0, t1 |-> t1, kept |-> {}]

GainValue(g, t) ==
    IF t >= g.t1 THEN g.v1
    ELSE IF t <= g.t0 THEN g.v0
    ELSE g.v0 + (((g.v1 - g.v0) * (t - g.t0)) \div (g.t1 - g.t0))

RampTarget(g) == g.v1
RampPending(g, t) == g.t1 > t

CurrentTime == clock[audioContextRef]

\* currentTime of the context the node of systemGainRef was made in.  A
\* context that runs has run at least as long as every context made after it,
\* so its time is not behind theirs.
GainClock ==
    LET times == {clock[c] : c \in {d \in DOMAIN clock : d >= mixerRef}}
    IN  CHOOSE t \in times : \A x \in times : x <= t

\* The ends of the ramps scheduled on g, the last one first told apart from
\* the kept ones by its rank.
RampEnds(g) ==
    {[t |-> e.t, v |-> e.v, rank |-> e.rank + 1] : e \in g.kept}
      \cup (IF g.t1 > g.t0 THEN {[t |-> g.t1, v |-> g.v1, rank |-> 0]} ELSE {})

\* Mutant: nothing is cancelled.
CancelNothing(g, t) == {e \in RampEnds(g) : e.t > GainClock}

\* gain.cancelScheduledValues(t): the events at t or later are removed, the
\* earlier ones stay (those that lie ahead of the node's own clock are kept
\* here; the others are past)
CancelScheduledValues(g, t) == {e \in RampEnds(g) : e.t > GainClock /\ e.t < t}

\* cancelScheduledValues(t0); setValueAtTime(v0, t0) and, for t1 > t0,
\* linearRampToValueAtTime(v1, t1)
Requested(g, v0, v1, t0, t1) ==
    [GainNode(v0, v1, t0, t1) EXCEPT !.kept = CancelScheduledValues(g, t0)]

\* The number of ramps of g that have not ended on the node's own clock.
PendingRamps(g) ==
    Cardinality({e \in RampEnds(g) : e.t > GainClock})

(***************************************************************************)
(* Inbound messages (LiveServerMessage), reduced to the fields onmessage   *)
(* reads: serverContent.interrupted, toolCall.functionCalls (their number) *)
(* and modelTurn.parts[0].inlineData.data ("none": absent, "ok": base64 of *)
(* `samples` PCM16 mono samples, "bad": a string atob rejects).            *)
(***************************************************************************)
ToolCallCounts == {0, 1}

Messages ==
    [interrupted : BOOLEAN, toolCalls : ToolCallCounts,
     audio : {"none"}, samples : {0}]
      \cup [interrupted : BOOLEAN, toolCalls : ToolCallCounts,
            audio : {"ok"}, samples : FrameSizes]
      \cup [interrupted : BOOLEAN, toolCalls : ToolCallCounts,
            audio : {"bad"}, samples : {0}]

\* Mutant: the interrupted flag counts only in a message that carries
\* nothing else.
InterruptionIfAlone(m) == m.interrupted /\ m.toolCalls = 0 /\ m.audio = "none"

\* if (message.serverContent?.interrupted) { ...; return; }
IsInterruption(m) == m.interrupted

(***************************************************************************)
(* Pure steps of the playback scheduler and of the ducking controller.     *)
(***************************************************************************)
\* Mutant: every message is taken to carry audio.
HasAudioAlways(m) == TRUE

\* const audioBase64 = ...inlineData?.data; if (audioBase64 && ...)
HasAudio(m) == m.audio # "none"

\* Mutant: the cursor is reset on every frame, idle gap or not.
CursorAlwaysReset(cursor, now) == now + Lookahead

\* if (nextStartTimeRef.current < outCtx.currentTime) nextStartTimeRef.current = outCtx.currentTime + 0.05
CursorAfterCheck(cursor, now) == IF cursor < now THEN now + Lookahead ELSE cursor

\* audioBuffer.duration of a buffer of frameCount = samples / numChannels frames at 24000 Hz
AudioBufferDuration(samples, numChannels) == samples \div numChannels

\* Mutant: the cursor is not advanced by the unit's duration.
CursorNotAdvanced(cursor, duration) == cursor

\* nextStartTimeRef.current += audioBuffer.duration
CursorAfterStart(cursor, duration) == cursor + duration

\* Mutant: a rejected start advances the cursor all the same.
CursorAdvancedOnRejectedStart(cursor, duration) == cursor + duration

\* source.start(nextStartTimeRef.current) throws: the statements after it,
\* the cursor advance among them, are not reached
CursorAfterRejectedStart(cursor, duration) == cursor

\* Mutant: the interruption leaves the cursor where it was.
InterruptedCursorKept == nextStartTimeRef

\* nextStartTimeRef.current = 0
InterruptedCursor == 0

\* source.start(when): a start time in the past begins playback at once
PlaybackBegin(when, now) == Max(when, now)

\* cancelScheduledValues(t); setValueAtTime(gain.value, t); linearRampToValueAtTime(0, t + 0.05)
DuckGain(g, t) == Requested(g, GainValue(g, t), 0, t, t + DuckRamp)

\* Mutant: the ended listener leaves the gain as it finds it.
RestoreSkipped(g, t) == g

\* cancelScheduledValues(t); setValueAtTime(0, t); linearRampToValueAtTime(0.7, t + 0.2)
RestoreGain(g, t) == Requested(g, 0, NominalGain, t, t + RestoreRamp)

\* Mutant: the interruption restores the gain with the 0.2 s ramp.
ResetGainRamped(g, t) == Requested(g, 0, NominalGain, t, t + RestoreRamp)

\* cancelScheduledValues(t); setValueAtTime(0.7, t)
ResetGain(g, t) == Requested(g, NominalGain, NominalGain, t, t)

\* s.stop(): the source is silent from now on and its 'ended' event is due;
\* its schedule no longer matters.
Stopped(source) == [source EXCEPT !.st = "stopped", !.when = 0, !.begin = 0, !.dur = 0]

\* audioSourcesRef.current.forEach(s => { try { s.stop(); } catch(e) {} })
StopAll(srcs, set) ==
    [u \in DOMAIN srcs |->
        IF u \in set /\ srcs[u].st = "playing"
        THEN Stopped(srcs[u])
        ELSE srcs[u]]

\* The last entry of the history of source.start calls, as a sequence.
LastCall(log) == IF log = <<>> THEN <<>> ELSE <<log[Len(log)]>>

\* A source whose 'ended' event was dispatched is garbage: it leaves the model.
Without(srcs, u) == [v \in DOMAIN srcs \ {u} |-> srcs[v]]

\* Mutant: any 'ended' event clears the speaking indicator.
SpeakingClearedOnEnded(speaking, set) == FALSE

\* if (audioSourcesRef.current.size === 0) setIsModelSpeaking(false)
SpeakingAfterEnded(speaking, set) == IF set = {} THEN FALSE ELSE speaking

(***************************************************************************)
(* The audio nodes of the input contexts and their connections.            *)
(***************************************************************************)
MicSource(s) == <<"micSource", s>>
Mixer(s) == <<"mixer", s>>
SystemGain(s) == <<"systemGain", s>>
ScriptProcessor(s) == <<"scriptProcessor", s>>
ScreenSource(n) == <<"screenSource", n>>

\* a.connect(b)
Connect(g, a, b) == g \cup {[from |-> a, to |-> b]}

\* Mutant: the node stays connected.
DisconnectNothing(g, a) == g

\* Mutant: every connection of the graph is removed.
DisconnectEverything(g, a) == {}

\* a.disconnect(): every outgoing connection of the node is removed
Disconnect(g, a) == {e \in g : e.from # a}

\* The ScreenStream effect is not capturing.  `abandoned` counts the runs of
\* the effect that were cleaned up (mounted = false) while their
\* getDisplayMedia request was pending.
NoCapture == [pc |-> "idle", stream |-> 0, abandoned |-> 0]

\* The cleanup of a run of the effect: mounted = false; a request still
\* pending stays pending.
CleanedUp(run) ==
    [pc |-> "idle", stream |-> 0,
     abandoned |-> run.abandoned + (IF run.pc = "asking" THEN 1 ELSE 0)]

\* The run of the effect has ended by itself: its request was rejected or its
\* video track ended.
RunOver(run) == [pc |-> "idle", stream |-> 0, abandoned |-> run.abandoned]

\* Mutant: the stream of a cleaned-up run is left as it arrived.
StreamArrivedKept(mounted, audio) ==
    [live |-> TRUE, audio |-> audio, reported |-> mounted, cancelled |-> ~mounted]

\* stream = await getDisplayMedia(...): if (!mounted) the tracks are stopped
\* and the run returns, otherwise onStreamStarted(stream) is called.
StreamArrived(mounted, audio) ==
    [live |-> mounted, audio |-> audio, reported |-> mounted, cancelled |-> ~mounted]

\* stream.getTracks().forEach(track => track.stop()) on the stream of the
\* current run of the ScreenStream effect, if it has one
TracksStopped(streams, run) ==
    IF run.pc = "streaming"
    THEN [streams EXCEPT ![run.stream].live = FALSE]
    ELSE streams

\* Mutant: the catch clause leaves the status as it is.
StatusKeptAfterCatch(st) == st

\* catch (err) { ...; setStatus(SessionStatus.DISCONNECTED) }
StatusAfterCatch(st) == "DISCONNECTED"

(***************************************************************************)
(* decodeAudioData(data, ctx, sampleRate, numChannels) of audioUtils.ts.   *)
(* data is a sequence of bytes; a sample of the result is counted in       *)
(* 1/32768, so that dataInt16[j] / 32768.0 is the integer dataInt16[j].    *)
(***************************************************************************)
ByteValues == {0, 128, 255}
ChannelCounts == {1, 2, 3}

ByteSeqs(n) == UNION {[1..k -> ByteValues] : k \in 0..n}

DecodeInputs == [data : ByteSeqs(MaxBytes), numChannels : ChannelCounts]

NoDecode == [data |-> <<>>, numChannels |-> 0]
NotDecoded == [error |-> "not called", buffer |-> <<>>]

\* dataInt16[j] of new Int16Array(data.buffer): two bytes, low byte first,
\* read as a signed 16-bit integer
Int16At(data, j) ==
    LET u == data[2 * j + 1] + 256 * data[2 * j + 2]
    IN  IF u >= 32768 THEN u - 65536 ELSE u

\* channelData[i] = dataInt16[i * numChannels + channel] / 32768.0
InterleavedSample(data, numChannels, length, channel, i) ==
    Int16At(data, i * numChannels + channel)

\* new Int16Array(data.buffer) throws a RangeError on an odd number of
\* bytes.  frameCount = dataInt16.length / numChannels is a fraction when
\* the division leaves a remainder; createBuffer converts it to an unsigned
\* long, dropping the fraction, and throws NotSupportedError on 0 frames.
\* The loop then runs while i < frameCount; a write at an index past the end
\* of channelData does nothing.  The buffer is a sequence of channels, each a
\* sequence of samples (index i of the code is i + 1 here).
DecodeAudioData(data, numChannels) ==
    IF Len(data) % 2 # 0
    THEN [error |-> "RangeError", buffer |-> <<>>]
    ELSE LET frameCount == (Len(data) \div 2) \div numChannels
         IN  IF frameCount = 0
             THEN [error |-> "NotSupportedError", buffer |-> <<>>]
             ELSE [error |-> "none",
                   buffer |->
                     [channel \in 1..numChannels |->
                        [i \in 1..frameCount |->
                           InterleavedSample(data, numChannels, frameCount,
                                             channel - 1, i - 1)]]]

(***************************************************************************)
(* encodeAudio and decodeAudio of audioUtils.ts.  A binary string is the   *)
(* sequence of its code units; a base64 string is the sequence of the      *)
(* values of its characters, 0..63 for the alphabet and 64 for "=".        *)
(***************************************************************************)
ChunkSize == 32768
Pad == 64

Min(a, b) == IF a <= b THEN a ELSE b

\* Mutant: a chunk misses its last byte.
SubarrayShort(bytes, begin, end) ==
    SubSeq(bytes, begin + 1, Min(end, Len(bytes)) - 1)

\* bytes.subarray(begin, end): the bytes at the indices begin .. end - 1,
\* end clamped to the length
Subarray(bytes, begin, end) == SubSeq(bytes, begin + 1, Min(end, Len(bytes)))

\* String.fromCharCode.apply(null, chunk): one code unit per byte
FromCharCode(chunk) == [k \in 1..Len(chunk) |-> chunk[k]]

\* for (let i = 0; i < bytes.length; i += chunkSize) binary += ...
RECURSIVE BinaryFrom(_, _)
BinaryFrom(bytes, i) ==
    IF i >= Len(bytes)
    THEN <<>>
    ELSE FromCharCode(Subarray(bytes, i, i + ChunkSize)) \o BinaryFrom(bytes, i + ChunkSize)

\* btoa(binary): every three code units give four characters; one or two
\* left-over code units give two or three characters and "=" padding.
Btoa(binary) ==
    LET n == Len(binary)
        at(j) == IF j <= n THEN binary[j] ELSE 0
        char(k) ==
            LET g == (k - 1) \div 4
                b1 == at(3 * g + 1)
                b2 == at(3 * g + 2)
                b3 == at(3 * g + 3)
                pos == (k - 1) % 4
            IN  IF pos = 0 THEN b1 \div 4
                ELSE IF pos = 1 THEN (b1 % 4) * 16 + b2 \div 16
                ELSE IF pos = 2
                     THEN IF 3 * g + 2 > n THEN Pad ELSE (b2 % 16) * 4 + b3 \div 64
                     ELSE IF 3 * g + 3 > n THEN Pad ELSE b3 % 64
    IN  [k \in 1..(4 * ((n + 2) \div 3)) |-> char(k)]

EncodeAudio(bytes) == Btoa(BinaryFrom(bytes, 0))

\* atob(base64): one or two "=" at the end of a string of a multiple of four
\* characters are removed; a remainder of one character modulo four, or a
\* character outside the alphabet, throws; every full eight bits of the
\* remaining characters give one code unit and the left-over bits are dropped.
Atob(base64) ==
    LET n == Len(base64)
        pads == IF n % 4 = 0 /\ n > 0 /\ base64[n] = Pad
                THEN IF base64[n - 1] = Pad THEN 2 ELSE 1
                ELSE 0
        m == n - pads
        code(j) ==
            LET q == (8 * (j - 1)) \div 6 + 1
                r == (8 * (j - 1)) % 6
                c1 == base64[q]
                c2 == base64[q + 1]
            IN  IF r = 0 THEN c1 * 4 + c2 \div 16
                ELSE IF r = 2 THEN (c1 % 16) * 16 + c2 \div 4
                ELSE (c1 % 4) * 64 + c2
    IN  IF m % 4 = 1 \/ \E k \in 1..m : base64[k] = Pad
        THEN [error |-> "InvalidCharacterError", binary |-> <<>>]
        ELSE [error |-> "none", binary |-> [j \in 1..((m * 6) \div 8) |-> code(j)]]

\* decodeAudio(base64): bytes[i] = binaryString.charCodeAt(i)
DecodeAudio(base64) ==
    LET decoded == Atob(base64)
    IN  IF decoded.error # "none"
        THEN [error |-> decoded.error, bytes |-> <<>>]
        ELSE [error |-> "none",
              bytes |-> [i \in 1..Len(decoded.binary) |-> decoded.binary[i]]]

(***************************************************************************)
(* createPcmBlob of audioUtils.ts.  A sample of a Float32Array is counted  *)
(* in 1/SampleDenominator, a power of two above 32768, so that every       *)
(* product below is exact as it is in double arithmetic and samples lie    *)
(* between the PCM16 steps.                                                *)
(***************************************************************************)
SampleDenominator == 65536

\* The integer part of (n / SampleDenominator) * k for k >= 0: the value a
\* store into an integer array keeps, the fraction dropped towards zero.
\* (The product is split so that it stays within 32 bits.)
Scaled(n, k) ==
    LET a == IF n >= 0 THEN n ELSE -n
        q == (a \div SampleDenominator) * k + ((a % SampleDenominator) * k) \div SampleDenominator
    IN  IF n >= 0 THEN q ELSE -q

\* Mutant: the sample is not clamped.
Unclamped(n) == n

\* Math.max(-1, Math.min(1, data[i]))
Clamp(n) == Max(-SampleDenominator, Min(SampleDenominator, n))

\* The store of the integer x into an Int16Array: modulo 2^16, signed.
ToInt16(x) == ((x + 32768) % 65536) - 32768

\* int16[i] = s < 0 ? s * 0x8000 : s * 0x7FFF
PcmSample(n) ==
    LET s == Clamp(n)
    IN  ToInt16(IF s < 0 THEN Scaled(s, 32768) ELSE Scaled(s, 32767))

\* new Uint8Array(int16.buffer): two bytes per sample, low byte first
Int16Bytes(int16) ==
    [k \in 1..(2 * Len(int16)) |->
        LET u == (int16[(k + 1) \div 2] + 65536) % 65536
        IN  IF k % 2 = 1 THEN u % 256 ELSE u \div 256]

CreatePcmBlob(data) ==
    [data |-> EncodeAudio(Int16Bytes([i \in 1..Len(data) |-> PcmSample(data[i])])),
     mimeType |-> "audio/pcm;rate=16000"]

(***************************************************************************)
(* downsampleTo16k of audioUtils.ts.                                       *)
(***************************************************************************)
TargetRate == 16000

\* Math.round(num / den), den > 0, num >= 0
MathRound(num, den) == (2 * num + den) \div (2 * den)

\* Mutant: the length of the input is kept.
LengthKept(length, inputRate) == length

\* ratio = inputRate / 16000; newLength = Math.round(buffer.length / ratio)
NewLength(length, inputRate) == MathRound(length * TargetRate, inputRate)

\* result[i]: the linear interpolation of the two samples around i * ratio,
\* stored on the sample grid.
Interpolated(buffer, inputRate, i) ==
    LET index1 == (i * inputRate) \div TargetRate
        weight == (i * inputRate) % TargetRate
        index2 == Min(IF weight = 0 THEN index1 ELSE index1 + 1, Len(buffer) - 1)
    IN  (buffer[index1 + 1] * (TargetRate - weight) + buffer[index2 + 1] * weight)
            \div TargetRate

DownsampleTo16k(buffer, inputRate) ==
    IF inputRate = TargetRate
    THEN buffer
    ELSE [k \in 1..NewLength(Len(buffer), inputRate) |->
            Interpolated(buffer, inputRate, k - 1)]

(***************************************************************************)
(* The calls of these functions that are checked.                          *)
(***************************************************************************)
\* A buffer of n bytes in which every byte value occurs.
PatternBytes(n) == [i \in 1..n |-> (i * 37 + i \div 256) % 256]

BoundaryLengths == {ChunkSize - 1, ChunkSize, ChunkSize + 1}

InputRates == {8000, 16000, 24000, 44100, 48000}
SampleValues == {-SampleDenominator, -1, 0, SampleDenominator \div 2, SampleDenominator}

SampleSeqs(n) == UNION {[1..k -> SampleValues] : k \in 0..n}

UtilCalls ==
    [fn : {"encodeAudio"}, bytes : ByteSeqs(MaxBytes - 2)]
      \cup [fn : {"encodeAudio"}, bytes : {PatternBytes(n) : n \in BoundaryLengths}]
      \cup [fn : {"createPcmBlob"}, data : {<<n>> : n \in (-MaxSample)..MaxSample}]
      \cup [fn : {"downsampleTo16k"}, buffer : SampleSeqs(MaxFrames),
            inputRate : InputRates]

NoCall == [fn |-> "none"]
NotCalled == [fn |-> "none"]

\* The state of App after its first render.
AppInit ==
    /\ status = "DISCONNECTED"
    /\ stage = <<>>
    /\ activeSessionRef = 0
    /\ audioContextRef = 0
    /\ clock = <<>>
    /\ systemGainRef = NoNode
    /\ nextStartTimeRef = 0
    /\ audioSourcesRef = {}
    /\ sources = <<>>
    /\ isModelSpeaking = FALSE
    /\ microtasks = <<>>
    /\ arrivals = 0
    /\ schedLog = <<>>
    /\ idleGapSeen = FALSE
    /\ interruptedAt = 0
    /\ error = "none"
    /\ micStreams = {}
    /\ graph = {}
    /\ closedCtx = {}
    /\ mixerRef = 0
    /\ screenStreamRef = 0
    /\ screenAudioSourceRef = 0
    /\ screenNodes = <<>>
    /\ displayStreams = <<>>
    /\ isSharingScreen = FALSE
    /\ hasSystemAudio = FALSE
    /\ capture = NoCapture
    /\ captured = 0
    /\ sentLog = <<>>

Init ==
    /\ AppInit
    /\ decodeInput = NoDecode
    /\ decodeResult = NotDecoded
    /\ utilArgs = NoCall
    /\ utilResult = NotCalled

(***************************************************************************)
(* connectScreenAudio(stream), on the graph g; hasAudio: the stream has an  *)
(* audio track.  The stream is stored; if                                  *)
(* the context pair, the mixer and systemGain are there and the stream has *)
(* an audio track, the old secondary source is disconnected and a source   *)
(* made on the referenced input context is connected to systemGain.        *)
(* connect() throws when systemGain belongs to another context than the    *)
(* source: the catch clause clears hasSystemAudio.                         *)
(***************************************************************************)
ConnectScreenAudio(stream, hasAudio, g) ==
    /\ screenStreamRef' = stream
    /\ IF audioContextRef # 0 /\ mixerRef # 0 /\ systemGainRef.node
       THEN IF hasAudio
            THEN LET n == Len(screenNodes) + 1
                     cut == IF screenAudioSourceRef # 0
                            THEN Disconnect(g, ScreenSource(screenAudioSourceRef))
                            ELSE g
                 IN  /\ screenNodes' = Append(screenNodes,
                            [stream |-> stream, ctx |-> audioContextRef])
                     /\ IF mixerRef = audioContextRef
                        THEN /\ graph' = Connect(cut, ScreenSource(n), SystemGain(mixerRef))
                             /\ screenAudioSourceRef' = n
                             /\ hasSystemAudio' = TRUE
                        ELSE /\ graph' = cut
                             /\ screenAudioSourceRef' = screenAudioSourceRef
                             /\ hasSystemAudio' = FALSE
            ELSE /\ hasSystemAudio' = FALSE
                 /\ graph' = g
                 /\ UNCHANGED <<screenAudioSourceRef, screenNodes>>
       ELSE /\ graph' = g
            /\ UNCHANGED <<screenAudioSourceRef, screenNodes, hasSystemAudio>>

(***************************************************************************)
(* startSession, invocation s.  stage[s] is the position of the            *)
(* invocation and then the state of the connection it made:                *)
(*   "resume"      suspended at `await inputCtx.resume()` /                *)
(*                 `await outputCtx.resume()` (a new AudioContext is       *)
(*                 "suspended" until the browser has started it)           *)
(*   "mic"         suspended at `await getUserMedia(...)`                  *)
(*   "connecting"  ai.live.connect was called, suspended at                *)
(*                 `await sessionPromise`                                  *)
(*   "open"        onopen ran, activeSessionRef was assigned               *)
(*   "closing"     close() was called on the session, or it failed         *)
(*   "closed"      onclose ran                                             *)
(*   "failed"      the catch clause ran                                    *)
(* Nothing cancels a suspended invocation: it continues at its next stage  *)
(* whatever stopSession did meanwhile.                                     *)
(***************************************************************************)
\* The session button while status is DISCONNECTED: startSession up to its
\* first await.  Context pair number Len(stage) + 1 is created.  At most
\* `limit` invocations are made.
StartWithin(limit) ==
    /\ status = "DISCONNECTED"
    /\ Len(stage) < limit
    /\ microtasks = <<>>
    /\ status' = "CONNECTING"
    /\ error' = "none"
    /\ stage' = Append(stage, "resume")
    /\ audioContextRef' = Len(stage) + 1
    /\ clock' = Append(clock, 0)
    /\ UNCHANGED <<activeSessionRef, systemGainRef, nextStartTimeRef, audioSourcesRef,
                   sources, isModelSpeaking, microtasks, arrivals, schedLog, idleGapSeen,
                   interruptedAt>>
    /\ UNCHANGED <<graphVars, screenVars, sendVars>>
    /\ UNCHANGED <<decodeVars, utilVars>>

StartSession == StartWithin(MaxSessions)

\* startSession from the resume awaits to the await of getUserMedia:
\* the mixer and systemGain (0.7) are created and connected, mixerRef and
\* systemGainRef are assigned.
StartResumed(s) ==
    /\ stage[s] = "resume"
    /\ microtasks = <<>>
    /\ stage' = [stage EXCEPT ![s] = "mic"]
    /\ systemGainRef' = GainNode(NominalGain, NominalGain, 0, 0)
    /\ mixerRef' = s
    /\ graph' = Connect(graph, SystemGain(s), Mixer(s))
    /\ UNCHANGED <<status, activeSessionRef, audioContextRef, clock, nextStartTimeRef,
                   audioSourcesRef, sources, isModelSpeaking, microtasks, arrivals,
                   schedLog, idleGapSeen, interruptedAt>>
    /\ UNCHANGED <<error, micStreams, closedCtx, screenVars, sendVars>>
    /\ UNCHANGED <<decodeVars, utilVars>>

\* startSession from the microphone grant to `await sessionPromise`: the
\* microphone source is connected to the mixer, the stored display stream is
\* attached, ai.live.connect is called.
MicGranted(s) ==
    /\ stage[s] = "mic"
    /\ microtasks = <<>>
    /\ stage' = [stage EXCEPT ![s] = "connecting"]
    /\ micStreams' = micStreams \cup {s}
    /\ IF screenStreamRef # 0
       THEN ConnectScreenAudio(screenStreamRef, displayStreams[screenStreamRef].audio,
                               Connect(graph, MicSource(s), Mixer(s)))
       ELSE /\ graph' = Connect(graph, MicSource(s), Mixer(s))
            /\ UNCHANGED <<screenStreamRef, screenAudioSourceRef, screenNodes,
                           hasSystemAudio>>
    /\ UNCHANGED <<status, activeSessionRef, audioContextRef, clock, systemGainRef,
                   nextStartTimeRef, audioSourcesRef, sources, isModelSpeaking,
                   microtasks, arrivals, schedLog, idleGapSeen, interruptedAt>>
    /\ UNCHANGED <<error, closedCtx, mixerRef, displayStreams, isSharingScreen,
                   capture, sendVars>>
    /\ UNCHANGED <<decodeVars, utilVars>>

\* getUserMedia rejects: catch (err) { setError(...); setStatus(DISCONNECTED) }
MicDenied(s) ==
    /\ stage[s] = "mic"
    /\ microtasks = <<>>
    /\ stage' = [stage EXCEPT ![s] = "failed"]
    /\ error' = "Failed to Connect."
    /\ status' = StatusAfterCatch(status)
    /\ UNCHANGED <<activeSessionRef, audioContextRef, clock, systemGainRef,
                   nextStartTimeRef, audioSourcesRef, sources, isModelSpeaking,
                   microtasks, arrivals, schedLog, idleGapSeen, interruptedAt>>
    /\ UNCHANGED <<graphVars, screenVars, sendVars>>
    /\ UNCHANGED <<decodeVars, utilVars>>

\* callbacks.onopen (the script processor is made and wired between the
\* mixer and the destination), then the continuation of startSession after
\* `await sessionPromise` (the promise is settled by the opening of the
\* socket, the continuation runs before the next task).
OnOpen(s) ==
    /\ stage[s] = "connecting"
    /\ microtasks = <<>>
    /\ stage' = [stage EXCEPT ![s] = "open"]
    /\ status' = "CONNECTED"
    /\ activeSessionRef' = s
    /\ graph' = Connect(graph, Mixer(s), ScriptProcessor(s))
    /\ UNCHANGED <<audioContextRef, clock, systemGainRef, nextStartTimeRef,
                   audioSourcesRef, sources, isModelSpeaking, microtasks, arrivals,
                   schedLog, idleGapSeen, interruptedAt>>
    /\ UNCHANGED <<error, micStreams, closedCtx, mixerRef, screenVars, sendVars>>
    /\ UNCHANGED <<decodeVars, utilVars>>

\* activeSessionRef.current.close(): an open connection starts closing
CloseActive(stg, active) ==
    IF active # 0 /\ stg[active] = "open"
    THEN [stg EXCEPT ![active] = "closing"]
    ELSE stg

\* The body of stopSession; stg is the stage of every invocation before it.
\* setIsSharingScreen(false) makes the ScreenStream effect clean up: the
\* tracks of its stream are stopped, a pending request is abandoned.
StopBody(stg) ==
    /\ stage' = CloseActive(stg, activeSessionRef)
    /\ activeSessionRef' = 0
    /\ graph' = IF screenAudioSourceRef # 0
                THEN Disconnect(graph, ScreenSource(screenAudioSourceRef))
                ELSE graph
    /\ screenAudioSourceRef' = 0
    /\ closedCtx' = IF audioContextRef # 0
                    THEN closedCtx \cup {audioContextRef}
                    ELSE closedCtx
    /\ audioContextRef' = 0
    /\ mixerRef' = IF audioContextRef # 0 THEN 0 ELSE mixerRef
    /\ systemGainRef' = IF audioContextRef # 0 THEN NoNode ELSE systemGainRef
    /\ sources' = StopAll(sources, audioSourcesRef)
    /\ audioSourcesRef' = {}
    /\ status' = "DISCONNECTED"
    /\ isSharingScreen' = FALSE
    /\ displayStreams' = TracksStopped(displayStreams, capture)
    /\ capture' = CleanedUp(capture)
    /\ isModelSpeaking' = FALSE
    /\ hasSystemAudio' = FALSE
    /\ UNCHANGED <<clock, nextStartTimeRef, microtasks, arrivals, schedLog, idleGapSeen,
                   interruptedAt>>
    /\ UNCHANGED <<micStreams, screenStreamRef, screenNodes, sendVars>>

\* The session button while status is not DISCONNECTED: stopSession
StopSession ==
    /\ status # "DISCONNECTED"
    /\ microtasks = <<>>
    /\ StopBody(stage)
    /\ UNCHANGED error
    /\ UNCHANGED <<decodeVars, utilVars>>

\* callbacks.onerror of connection s: setError, stopSession.  The failed
\* socket then closes.
OnError(s) ==
    /\ stage[s] \in {"connecting", "open"}
    /\ microtasks = <<>>
    /\ error' = "Connection failure."
    /\ StopBody([stage EXCEPT ![s] = "closing"])
    /\ UNCHANGED <<decodeVars, utilVars>>

\* callbacks.onclose of connection s (closed by close(), by a failure or by
\* the server): stopSession
OnClose(s) ==
    /\ stage[s] \in {"open", "closing"}
    /\ microtasks = <<>>
    /\ StopBody([stage EXCEPT ![s] = "closed"])
    /\ UNCHANGED error
    /\ UNCHANGED <<decodeVars, utilVars>>

\* A connection is open: its onmessage can be invoked.
LinkOpen == \E s \in DOMAIN stage : stage[s] = "open"

\* The clock of context pair c advances by one quantum.  Only the clock of
\* the referenced pair and of a pair with a source playing are ever read.
Tick(c) ==
    /\ c = audioContextRef \/ \E u \in DOMAIN sources :
                                 sources[u].st = "playing" /\ sources[u].ctx = c
    /\ microtasks = <<>>
    /\ clock[c] < MaxTicks * Quantum
    /\ clock' = [clock EXCEPT ![c] = @ + Quantum]
    /\ UNCHANGED <<status, stage, activeSessionRef, audioContextRef, systemGainRef,
                   nextStartTimeRef, audioSourcesRef, sources, isModelSpeaking,
                   microtasks, arrivals, schedLog, idleGapSeen, interruptedAt>>
    /\ UNCHANGED <<error, graphVars, screenVars, sendVars>>
    /\ UNCHANGED <<decodeVars, utilVars>>

(***************************************************************************)
(* onmessage, the interrupted branch.                                      *)
(***************************************************************************)
Interrupted(id) ==
    /\ sources' = StopAll(sources, audioSourcesRef)
    /\ audioSourcesRef' = {}
    /\ nextStartTimeRef' = InterruptedCursor
    /\ isModelSpeaking' = FALSE
    /\ systemGainRef' = IF systemGainRef.node /\ audioContextRef # 0
                        THEN ResetGain(systemGainRef, CurrentTime)
                        ELSE systemGainRef
    /\ interruptedAt' = id
    /\ UNCHANGED <<microtasks, schedLog, idleGapSeen>>

(***************************************************************************)
(* onmessage from the audio payload test to the await of decodeAudioData:  *)
(* the cursor check, decodeAudio (atob throws on a string that is not       *)
(* base64 and the handler ends there), then suspension.  q is the          *)
(* microtask queue without this handler.                                   *)
(***************************************************************************)
AudioStage(m, id, q) ==
    /\ IF HasAudio(m) /\ audioContextRef # 0
       THEN /\ nextStartTimeRef' = CursorAfterCheck(nextStartTimeRef, CurrentTime)
            /\ idleGapSeen' = (idleGapSeen \/ nextStartTimeRef < CurrentTime)
            /\ microtasks' =
                 IF m.audio = "bad"
                 THEN q
                 ELSE Append(q, [id |-> id, pc |-> "decode", msg |-> m, left |-> 0,
                                 ctx |-> audioContextRef,
                                 checkNow |-> CurrentTime,
                                 checkCursor |-> nextStartTimeRef])
       ELSE /\ nextStartTimeRef' = nextStartTimeRef
            /\ idleGapSeen' = idleGapSeen
            /\ microtasks' = q
    /\ UNCHANGED <<sources, audioSourcesRef, isModelSpeaking, systemGainRef,
                   schedLog, interruptedAt>>

\* onmessage suspended at `await handleAgentAction(fc.name, fc.args)`
ToolStage(m, id, left, q) ==
    /\ microtasks' = Append(q, [id |-> id, pc |-> "tool", msg |-> m, left |-> left,
                                ctx |-> 0, checkNow |-> 0, checkCursor |-> 0])
    /\ UNCHANGED <<nextStartTimeRef, sources, audioSourcesRef, isModelSpeaking,
                   systemGainRef, schedLog, idleGapSeen, interruptedAt>>

(***************************************************************************)
(* onmessage after the await of decodeAudioData: duck, register the        *)
(* 'ended' listener, start the source at the cursor, advance the cursor,   *)
(* add the source to the Set.                                              *)
(***************************************************************************)
Schedule(k, q) ==
    LET now == clock[k.ctx]
        duration == AudioBufferDuration(k.msg.samples, 1)
        when == nextStartTimeRef
        source == [frame |-> k.id, when |-> when, begin |-> PlaybackBegin(when, now),
                   dur |-> duration, ctx |-> k.ctx, st |-> "playing"]
    IN  /\ systemGainRef' = IF systemGainRef.node
                            THEN DuckGain(systemGainRef, now)
                            ELSE systemGainRef
        /\ sources' = sources @@ (k.id :> source)
        /\ isModelSpeaking' = TRUE
        /\ nextStartTimeRef' = CursorAfterStart(when, duration)
        /\ audioSourcesRef' = audioSourcesRef \cup {k.id}
        /\ schedLog' = Append(LastCall(schedLog),
               [frame |-> k.id, when |-> when, dur |-> duration,
                gap |-> idleGapSeen, ctx |-> k.ctx])
        /\ idleGapSeen' = FALSE
        /\ microtasks' = q
        /\ UNCHANGED interruptedAt

\* The same up to source.start, which throws: the gain is ducked and the
\* listener registered, but the source never plays, the speaking indicator
\* and the Set are not touched and the handler ends there.
ScheduleRejected(k, q) ==
    LET now == clock[k.ctx]
        duration == AudioBufferDuration(k.msg.samples, 1)
        when == nextStartTimeRef
        source == [frame |-> k.id, when |-> when, begin |-> 0,
                   dur |-> duration, ctx |-> k.ctx, st |-> "rejected"]
    IN  /\ systemGainRef' = IF systemGainRef.node
                            THEN DuckGain(systemGainRef, now)
                            ELSE systemGainRef
        /\ sources' = sources @@ (k.id :> source)
        /\ nextStartTimeRef' = CursorAfterRejectedStart(when, duration)
        /\ microtasks' = q
        /\ UNCHANGED <<isModelSpeaking, audioSourcesRef, schedLog, idleGapSeen, interruptedAt>>

\* callbacks.onmessage is invoked with message m
OnMessage(m) ==
    /\ LinkOpen
    /\ arrivals < MaxMsgs
    /\ (IsInterruption(m) \/ (m.toolCalls = 0 /\ m.audio = "none")
          \/ Len(microtasks) < MaxPending)
    /\ arrivals' = arrivals + 1
    /\ IF IsInterruption(m)
       THEN Interrupted(arrivals + 1)
       ELSE IF m.toolCalls > 0
            THEN ToolStage(m, arrivals + 1, m.toolCalls, microtasks)
            ELSE AudioStage(m, arrivals + 1, microtasks)
    /\ UNCHANGED <<status, stage, activeSessionRef, audioContextRef, clock>>
    /\ UNCHANGED <<error, graphVars, screenVars, sendVars>>
    /\ UNCHANGED <<decodeVars, utilVars>>

\* The oldest suspended handler resumes after its await.
Resume ==
    /\ microtasks # <<>>
    /\ LET k == Head(microtasks)
           q == Tail(microtasks)
       IN  IF k.pc = "tool"
           THEN IF k.left > 1
                THEN ToolStage(k.msg, k.id, k.left - 1, q)
                ELSE AudioStage(k.msg, k.id, q)
           ELSE Schedule(k, q)
    /\ UNCHANGED <<status, stage, activeSessionRef, audioContextRef, clock, arrivals>>
    /\ UNCHANGED <<error, graphVars, screenVars, sendVars>>
    /\ UNCHANGED <<decodeVars, utilVars>>

\* The oldest suspended handler resumes after the await of decodeAudioData
\* and the output device rejects the start of its source.
ResumeRejected ==
    /\ microtasks # <<>>
    /\ Head(microtasks).pc = "decode"
    /\ ScheduleRejected(Head(microtasks), Tail(microtasks))
    /\ UNCHANGED <<status, stage, activeSessionRef, audioContextRef, clock, arrivals>>
    /\ UNCHANGED <<error, graphVars, screenVars, sendVars>>
    /\ UNCHANGED <<decodeVars, utilVars>>

(***************************************************************************)
(* The 'ended' event of source u is dispatched: the source played to its   *)
(* end on a live context, or stop() was called on it.                      *)
(***************************************************************************)
EndedDue(u) ==
    \/ /\ sources[u].st = "playing"
       /\ clock[sources[u].ctx] >= sources[u].begin + sources[u].dur
    \/ sources[u].st = "stopped"

Ended(u) ==
    /\ microtasks = <<>>
    /\ EndedDue(u)
    /\ sources' = Without(sources, u)
    /\ audioSourcesRef' = audioSourcesRef \ {u}
    /\ isModelSpeaking' = SpeakingAfterEnded(isModelSpeaking, audioSourcesRef \ {u})
    /\ systemGainRef' = IF audioSourcesRef \ {u} = {} /\ systemGainRef.node
                        THEN RestoreGain(systemGainRef, clock[sources[u].ctx])
                        ELSE systemGainRef
    /\ UNCHANGED <<status, stage, activeSessionRef, audioContextRef, clock,
                   nextStartTimeRef, microtasks, arrivals, schedLog, idleGapSeen, interruptedAt>>
    /\ UNCHANGED <<error, graphVars, screenVars, sendVars>>
    /\ UNCHANGED <<decodeVars, utilVars>>

(***************************************************************************)
(* Screen sharing: the share button of App and the effect of ScreenStream. *)
(***************************************************************************)
\* onStreamStopped: setIsSharingScreen(false); screenStreamRef.current = null;
\* setHasSystemAudio(false).  The effect then cleans up.
OnStreamStopped ==
    /\ isSharingScreen' = FALSE
    /\ screenStreamRef' = 0
    /\ hasSystemAudio' = FALSE
    /\ capture' = RunOver(capture)

\* The share button: setIsSharingScreen(!isSharingScreen).  Turned on, the
\* effect calls getDisplayMedia; turned off, it stops the tracks of its stream.
ToggleShare ==
    /\ microtasks = <<>>
    /\ isSharingScreen' = ~isSharingScreen
    /\ IF isSharingScreen
       THEN /\ capture' = CleanedUp(capture)
            /\ displayStreams' = TracksStopped(displayStreams, capture)
       ELSE /\ Len(displayStreams) + capture.abandoned < MaxShares
            /\ capture' = [pc |-> "asking", stream |-> 0,
                           abandoned |-> capture.abandoned]
            /\ displayStreams' = displayStreams
    /\ UNCHANGED <<screenStreamRef, screenAudioSourceRef, screenNodes, hasSystemAudio>>
    /\ UNCHANGED <<sessionVars, playbackVars, error, graphVars, sendVars>>
    /\ UNCHANGED <<decodeVars, utilVars>>

\* getDisplayMedia resolves with a stream (audio: it has an audio track):
\* onStreamStarted(stream)
DisplayGranted(audio) ==
    /\ capture.pc = "asking"
    /\ microtasks = <<>>
    /\ displayStreams' = Append(displayStreams, StreamArrived(TRUE, audio))
    /\ capture' = [pc |-> "streaming", stream |-> Len(displayStreams) + 1,
                   abandoned |-> capture.abandoned]
    /\ isSharingScreen' = TRUE
    /\ ConnectScreenAudio(Len(displayStreams) + 1, audio, graph)
    /\ UNCHANGED <<sessionVars, playbackVars, error, micStreams, closedCtx, mixerRef,
                   sendVars>>
    /\ UNCHANGED <<decodeVars, utilVars>>

\* The messages of the error getDisplayMedia rejects with ("": no message).
DisplayErrors == {"", "Permission denied"}

\* getDisplayMedia rejects with an error of message msg: onError(err), that
\* is setError(e.message || "Screen capture denied"), then onStreamStopped()
DisplayDenied(msg) ==
    /\ capture.pc = "asking"
    /\ microtasks = <<>>
    /\ error' = IF msg # "" THEN msg ELSE "Screen capture denied"
    /\ OnStreamStopped
    /\ UNCHANGED <<screenAudioSourceRef, screenNodes, displayStreams>>
    /\ UNCHANGED <<sessionVars, playbackVars, graphVars, sendVars>>
    /\ UNCHANGED <<decodeVars, utilVars>>

\* getDisplayMedia of a cleaned-up run resolves with a stream: its tracks are
\* stopped and nothing is called.
LateGranted(audio) ==
    /\ capture.abandoned > 0
    /\ microtasks = <<>>
    /\ displayStreams' = Append(displayStreams, StreamArrived(FALSE, audio))
    /\ capture' = [capture EXCEPT !.abandoned = @ - 1]
    /\ UNCHANGED <<screenStreamRef, screenAudioSourceRef, screenNodes, isSharingScreen,
                   hasSystemAudio>>
    /\ UNCHANGED <<sessionVars, playbackVars, error, graphVars, sendVars>>
    /\ UNCHANGED <<decodeVars, utilVars>>

\* getDisplayMedia of a cleaned-up run rejects: the catch clause finds
\* mounted false and calls nothing.
LateDenied ==
    /\ capture.abandoned > 0
    /\ microtasks = <<>>
    /\ capture' = [capture EXCEPT !.abandoned = @ - 1]
    /\ UNCHANGED <<screenStreamRef, screenAudioSourceRef, screenNodes, displayStreams,
                   isSharingScreen, hasSystemAudio>>
    /\ UNCHANGED <<sessionVars, playbackVars, error, graphVars, sendVars>>
    /\ UNCHANGED <<decodeVars, utilVars>>

\* The video track of the stream ends (the user stops sharing in the
\* browser): onStreamStopped()
TrackEnded ==
    /\ capture.pc = "streaming"
    /\ microtasks = <<>>
    /\ displayStreams' = TracksStopped(displayStreams, capture)
    /\ OnStreamStopped
    /\ UNCHANGED <<screenAudioSourceRef, screenNodes>>
    /\ UNCHANGED <<sessionVars, playbackVars, error, graphVars, sendVars>>
    /\ UNCHANGED <<decodeVars, utilVars>>

(***************************************************************************)
(* Outbound audio.                                                         *)
(***************************************************************************)
\* Mutant: the unit is sent twice.
SendTwice(log, unit) == Append(Append(log, unit), unit)

\* s.sendRealtimeInput({ media: pcmBlob })
SendRealtimeInput(log, unit) == Append(log, unit)

\* inputCtx.sampleRate: 16000 where the constructor takes the sampleRate
\* option, the rate of the device where it is ignored (the webkitAudioContext
\* fallback takes no options).
ContextRates == {TargetRate, 48000}

\* createPcmBlob(e.inputBuffer.getChannelData(0)): the samples are encoded as
\* the input context delivers them, at its rate, and tagged rate=16000.
PcmUnit(s, block, contextRate) ==
    [session |-> s, block |-> block, rate |-> contextRate,
     mimeType |-> "audio/pcm;rate=16000"]

\* scriptProcessor.onaudioprocess of invocation s, on a running input
\* context: one block is captured, then the reaction registered on
\* sessionPromise (already resolved: the processor is made in onopen) sends it
\* before the next task.  Every block of one context has the rate of that
\* context.
OnAudioProcess(s) ==
    /\ [from |-> Mixer(s), to |-> ScriptProcessor(s)] \in graph
    /\ s \notin closedCtx
    /\ microtasks = <<>>
    /\ captured < MaxBlocks
    /\ captured' = captured + 1
    /\ \E rate \in ContextRates :
         /\ \A i \in 1..Len(sentLog) : sentLog[i].session = s => sentLog[i].rate = rate
         /\ sentLog' = SendRealtimeInput(sentLog, PcmUnit(s, captured + 1, rate))
    /\ UNCHANGED <<sessionVars, playbackVars, error, graphVars, screenVars>>
    /\ UNCHANGED <<decodeVars, utilVars>>

Next ==
    \/ StartSession
    \/ \E s \in DOMAIN stage : StartResumed(s)
    \/ \E s \in DOMAIN stage : MicGranted(s)
    \/ \E s \in DOMAIN stage : MicDenied(s)
    \/ \E s \in DOMAIN stage : OnOpen(s)
    \/ StopSession
    \/ \E s \in DOMAIN stage : OnClose(s)
    \/ \E c \in DOMAIN clock : Tick(c)
    \/ \E m \in Messages : OnMessage(m)
    \/ Resume
    \/ \E u \in DOMAIN sources : Ended(u)

Spec == Init /\ [][Next]_vars

(***************************************************************************)
(* Playback under fairness.  A running context renders without pause: once *)
(* Tick has reached its bound, the clock of a pair with a source playing   *)
(* moves on to the end of the next source (nothing else reads the clock in *)
(* between).  Suspended handlers resume, and an 'ended' event that is due  *)
(* is dispatched.  The messages are those of a conversation that is not    *)
(* interrupted: audio frames, decodable or not, and messages without       *)
(* audio; function calls, which only postpone the handler and touch no     *)
(* playback state, are left out.                                           *)
(***************************************************************************)
LiveMessages == {m \in Messages : ~m.interrupted /\ m.toolCalls = 0}

\* The ends of the sources playing on pair c that lie ahead of its clock.
EndsAhead(c) ==
    {sources[u].begin + sources[u].dur : u \in
        {v \in DOMAIN sources : /\ sources[v].st = "playing"
                                /\ sources[v].ctx = c
                                /\ sources[v].begin + sources[v].dur > clock[c]}}

Elapse(c) ==
    /\ microtasks = <<>>
    /\ clock[c] >= MaxTicks * Quantum
    /\ EndsAhead(c) # {}
    /\ clock' = [clock EXCEPT ![c] =
                   CHOOSE t \in EndsAhead(c) : \A e \in EndsAhead(c) : t <= e]
    /\ UNCHANGED <<status, stage, activeSessionRef, audioContextRef, systemGainRef,
                   nextStartTimeRef, audioSourcesRef, sources, isModelSpeaking,
                   microtasks, arrivals, schedLog, idleGapSeen, interruptedAt>>
    /\ UNCHANGED <<error, graphVars, screenVars, sendVars>>
    /\ UNCHANGED <<decodeVars, utilVars>>

LiveNext ==
    \/ StartSession
    \/ \E s \in DOMAIN stage : StartResumed(s)
    \/ \E s \in DOMAIN stage : MicGranted(s)
    \/ \E s \in DOMAIN stage : MicDenied(s)
    \/ \E s \in DOMAIN stage : OnOpen(s)
    \/ StopSession
    \/ \E s \in DOMAIN stage : OnClose(s)
    \/ \E c \in DOMAIN clock : Tick(c)
    \/ \E m \in LiveMessages : OnMessage(m)
    \/ Resume
    \/ \E u \in DOMAIN sources : Ended(u)
    \/ \E c \in DOMAIN clock : Elapse(c)

Rendering == \E c \in DOMAIN clock : Tick(c) \/ Elapse(c)

LiveSpec ==
    /\ Init
    /\ [][LiveNext]_vars
    /\ WF_vars(Resume)
    /\ WF_vars(Rendering)
    /\ WF_vars(\E u \in DOMAIN sources : Ended(u))

(***************************************************************************)
(* decodeAudioData on its own: any byte buffer, any channel count.          *)
(***************************************************************************)
DecodeInit ==
    /\ AppInit
    /\ decodeInput \in DecodeInputs
    /\ decodeResult = NotDecoded
    /\ utilArgs = NoCall
    /\ utilResult = NotCalled

Decode ==
    /\ decodeResult = NotDecoded
    /\ decodeResult' = DecodeAudioData(decodeInput.data, decodeInput.numChannels)
    /\ UNCHANGED <<sessionVars, playbackVars, error, graphVars, screenVars, sendVars,
                   decodeInput, utilVars>>

DecodeNext == Decode

DecodeSpec == DecodeInit /\ [][DecodeNext]_vars

(***************************************************************************)
(* The other functions of audioUtils.ts on their own.                      *)
(***************************************************************************)
UtilInit ==
    /\ AppInit
    /\ decodeInput = NoDecode
    /\ decodeResult = NotDecoded
    /\ utilArgs \in UtilCalls
    /\ utilResult = NotCalled

UtilUnchanged ==
    UNCHANGED <<sessionVars, playbackVars, error, graphVars, screenVars, sendVars,
                decodeVars, utilArgs>>

CallEncodeAudio ==
    /\ utilArgs.fn = "encodeAudio"
    /\ utilResult = NotCalled
    /\ utilResult' = [fn |-> "encodeAudio", base64 |-> EncodeAudio(utilArgs.bytes)]
    /\ UtilUnchanged

\* decodeAudio on what encodeAudio returned
CallDecodeAudio ==
    /\ utilResult.fn = "encodeAudio"
    /\ utilResult' = [fn |-> "decodeAudio", out |-> DecodeAudio(utilResult.base64)]
    /\ UtilUnchanged

CallCreatePcmBlob ==
    /\ utilArgs.fn = "createPcmBlob"
    /\ utilResult = NotCalled
    /\ utilResult' = [fn |-> "createPcmBlob", blob |-> CreatePcmBlob(utilArgs.data)]
    /\ UtilUnchanged

CallDownsampleTo16k ==
    /\ utilArgs.fn = "downsampleTo16k"
    /\ utilResult = NotCalled
    /\ utilResult' = [fn |-> "downsampleTo16k",
                      out |-> DownsampleTo16k(utilArgs.buffer, utilArgs.inputRate)]
    /\ UtilUnchanged

UtilNext ==
    \/ CallEncodeAudio
    \/ CallDecodeAudio
    \/ CallCreatePcmBlob
    \/ CallDownsampleTo16k

UtilSpec == UtilInit /\ [][UtilNext]_vars

(***************************************************************************)
(* Playback with an output device that may reject the start of a source.   *)
(***************************************************************************)
FaultNext ==
    \/ Next
    \/ ResumeRejected

FaultSpec == Init /\ [][FaultNext]_vars

(***************************************************************************)
(* The capture side: the session life cycle, screen sharing and outbound   *)
(* audio, with no inbound message.                                         *)
(***************************************************************************)
CaptureNext ==
    \/ StartSession
    \/ \E s \in DOMAIN stage : StartResumed(s)
    \/ \E s \in DOMAIN stage : MicGranted(s)
    \/ \E s \in DOMAIN stage : MicDenied(s)
    \/ \E s \in DOMAIN stage : OnOpen(s)
    \/ StopSession
    \/ \E s \in DOMAIN stage : OnError(s)
    \/ \E s \in DOMAIN stage : OnClose(s)
    \/ ToggleShare
    \/ \E audio \in BOOLEAN : DisplayGranted(audio)
    \/ \E msg \in DisplayErrors : DisplayDenied(msg)
    \/ TrackEnded
    \/ \E audio \in BOOLEAN : LateGranted(audio)
    \/ LateDenied
    \/ \E s \in DOMAIN stage : OnAudioProcess(s)

CaptureSpec == Init /\ [][CaptureNext]_vars

(***************************************************************************)
(* The session life cycle over three presses of the start button, with     *)
(* outbound audio and nothing else.                                        *)
(***************************************************************************)
RestartNext ==
    \/ StartWithin(MaxStarts)
    \/ \E s \in DOMAIN stage : StartResumed(s)
    \/ \E s \in DOMAIN stage : MicGranted(s)
    \/ \E s \in DOMAIN stage : MicDenied(s)
    \/ \E s \in DOMAIN stage : OnOpen(s)
    \/ StopSession
    \/ \E s \in DOMAIN stage : OnError(s)
    \/ \E s \in DOMAIN stage : OnClose(s)
    \/ \E s \in DOMAIN stage : OnAudioProcess(s)

RestartSpec == Init /\ [][RestartNext]_vars

(***************************************************************************)
(* Properties.                                                             *)
(***************************************************************************)
StoppedSources == {u \in DOMAIN sources : sources[u].st = "stopped"}

Overlap(a, b) == a.begin < b.begin + b.dur /\ b.begin < a.begin + a.dur

\* C1: as long as no interruption was handled, for two consecutive
\* source.start calls whose frames were handled in arrival order, with no idle
\* gap at a cursor check between the two calls, the second start time is the first
\* start time plus the first frame's duration (so start times do not decrease).
C1_BackToBack ==
    (/\ interruptedAt = 0
     /\ Len(schedLog) = 2
     /\ schedLog[1].frame < schedLog[2].frame
     /\ ~schedLog[2].gap)
    => /\ schedLog[2].when = schedLog[1].when + schedLog[1].dur
       /\ schedLog[2].when >= schedLog[1].when

\* Three 4096-sample frames are sounding at t0, t0 + 4096, t0 + 8192.
C1_Witness ==
    /\ audioSourcesRef = {1, 2, 3}
    /\ \A u \in audioSourcesRef : sources[u].dur = 4096
    /\ sources[2].when = sources[1].when + 4096
    /\ sources[3].when = sources[1].when + 8192
    /\ Len(schedLog) = 2 /\ ~schedLog[2].gap /\ interruptedAt = 0

\* C2: the step that handles an interruption message leaves audioSourcesRef
\* empty and nextStartTimeRef at 0, however many units were in the Set.
C2_InterruptionClears ==
    [][interruptedAt' # interruptedAt
         => audioSourcesRef' = {} /\ nextStartTimeRef' = 0]_vars

\* An interruption was the last message and it stopped two units.
C2_Witness ==
    /\ interruptedAt = arrivals /\ interruptedAt > 0
    /\ Cardinality(StoppedSources) = 2
    /\ audioSourcesRef = {} /\ nextStartTimeRef = 0

\* C3: no unit in the Set comes from a frame that arrived before the last
\* interruption handled.
C3_NoStaleUnit ==
    \A u \in audioSourcesRef : sources[u].frame > interruptedAt

\* C4: while a session holds the secondary gain node, the target of its last
\* gain request is 0 when audioSourcesRef is non-empty and 0.7 when it is empty.
C4_Ducking ==
    systemGainRef.node =>
        /\ audioSourcesRef # {} => RampTarget(systemGainRef) = 0
        /\ audioSourcesRef = {} => RampTarget(systemGainRef) = NominalGain

\* C5: the step that handles an interruption message while units are in the
\* Set and the secondary gain exists stops every unit of the Set and leaves the
\* gain at 0.7 from the current time on, with no ramp pending.
C5_InterruptionGain ==
    [][(interruptedAt' # interruptedAt /\ audioSourcesRef # {} /\ systemGainRef.node)
         => /\ \A u \in audioSourcesRef : sources'[u].st = "stopped"
            /\ systemGainRef'.node
            /\ GainValue(systemGainRef', CurrentTime) = NominalGain
            /\ RampTarget(systemGainRef') = NominalGain
            /\ ~RampPending(systemGainRef', CurrentTime)]_vars

\* An interruption stopped two units at 0.05 s; the gain was set to 0.7 at
\* that time, with no ramp.
C5_Witness ==
    /\ interruptedAt = arrivals /\ interruptedAt > 0
    /\ Cardinality(StoppedSources) = 2
    /\ audioContextRef # 0 /\ CurrentTime = Quantum
    /\ systemGainRef = GainNode(NominalGain, NominalGain, Quantum, Quantum)

\* C6: isModelSpeaking is true exactly when audioSourcesRef is non-empty.
C6_SpeakingIffActive == isModelSpeaking <=> (audioSourcesRef # {})

\* A unit has ended while another one is still in the Set.
C6_Witness ==
    /\ isModelSpeaking
    /\ Len(schedLog) = 2
    /\ Cardinality(audioSourcesRef) = 1
    /\ DOMAIN sources = audioSourcesRef

\* C7 as stated: nextStartTimeRef never decreases.
C7_CursorNeverDecreases == [][nextStartTimeRef' >= nextStartTimeRef]_vars

\* C7 as amended: nextStartTimeRef never decreases in a step that is not the
\* handling of an interruption message.
C7_CursorMonotoneExceptInterruption ==
    [][interruptedAt' = interruptedAt => nextStartTimeRef' >= nextStartTimeRef]_vars

\* The cursor was reset by an interruption and has advanced again since.
C7_Witness == interruptedAt > 0 /\ nextStartTimeRef > 0 /\ audioSourcesRef # {}

\* C8: when a frame's handler starts its unit: if the cursor was behind the
\* output clock at the frame's cursor check the unit starts at that time plus
\* 0.05 s, otherwise it starts at the cursor; the start time is not less than
\* the cursor and the cursor afterwards is the start time plus the duration.
C8_StartRule ==
    [][(microtasks # <<>> /\ Head(microtasks).pc = "decode"
          /\ microtasks' = Tail(microtasks))
         => LET k == Head(microtasks)
                unit == sources'[k.id]
            IN  /\ k.checkCursor < k.checkNow => unit.when = k.checkNow + Lookahead
                /\ ~(k.checkCursor < k.checkNow) => unit.when = nextStartTimeRef
                /\ unit.when >= nextStartTimeRef
                /\ nextStartTimeRef' = unit.when + unit.dur]_vars

\* C9: absent interruption, a frame received before another one is started
\* no later than it.
C9_ArrivalOrder ==
    interruptedAt = 0 =>
        \A i, j \in 1..Len(schedLog) :
            schedLog[i].frame < schedLog[j].frame
                => schedLog[i].when <= schedLog[j].when

\* C10: the playing intervals of two distinct units of the Set do not overlap.
C10_NoOverlap ==
    \A u, v \in audioSourcesRef :
        u # v => ~Overlap(sources[u], sources[v])

(***************************************************************************)
(* Properties of the capture side.                                         *)
(***************************************************************************)
\* A step that runs stopSession: the button, onerror or onclose.
StopStep ==
    \/ StopSession
    \/ \E s \in DOMAIN stage : OnError(s)
    \/ \E s \in DOMAIN stage : OnClose(s)

\* A step of screen sharing: the share button or an outcome of the capture.
ScreenStep ==
    \/ ToggleShare
    \/ \E audio \in BOOLEAN : DisplayGranted(audio)
    \/ \E msg \in DisplayErrors : DisplayDenied(msg)
    \/ TrackEnded

\* The secondary sources connected to a gain.
ConnectedScreenSources == {e.from[2] : e \in {c \in graph : c.from[1] = "screenSource"}}

\* The connections of the primary path: microphone to mixer, mixer to processor.
PrimaryPath == {e \in graph : e.from[1] \in {"micSource", "mixer"}}

\* The processor of invocation s gets microphone blocks.
CanCapture(s) ==
    /\ [from |-> MicSource(s), to |-> Mixer(s)] \in graph
    /\ [from |-> Mixer(s), to |-> ScriptProcessor(s)] \in graph
    /\ s \notin closedCtx

\* A secondary source with a live stream feeds a running input context.
LiveSecondary ==
    \E n \in ConnectedScreenSources :
        /\ displayStreams[screenNodes[n].stream].live
        /\ screenNodes[n].ctx \notin closedCtx

\* What stopSession leaves behind in the state of App.
TornDown ==
    /\ activeSessionRef = 0 /\ audioContextRef = 0 /\ screenAudioSourceRef = 0
    /\ audioSourcesRef = {} /\ ConnectedScreenSources = {}
    /\ status = "DISCONNECTED"
    /\ ~isSharingScreen /\ ~isModelSpeaking /\ ~hasSystemAudio

C12_FullTeardown ==
    [][StopStep
         => /\ audioSourcesRef' = {}
            /\ \A u \in DOMAIN sources' : sources'[u].st # "playing"
            /\ graph' = {}
            /\ micStreams' = {}
            /\ \A d \in DOMAIN displayStreams' : ~displayStreams'[d].live]_vars

\* C13: a step that runs stopSession leaves App torn down, and run on a state
\* already torn down it changes nothing (but the state of the socket and the
\* error message onerror sets).
C13_StopIdempotent ==
    [][StopStep
         => /\ TornDown'
            /\ TornDown => UNCHANGED <<audioContextRef, activeSessionRef, status,
                                       playbackVars, graphVars, screenVars,
                                       sendVars>>]_vars

\* onerror then onclose of the same connection ran stopSession twice.
C13_Witness ==
    /\ Len(stage) = 1 /\ stage[1] = "closed" /\ error = "Connection failure."
    /\ TornDown /\ micStreams = {1}

\* C14: at most one secondary source is connected to a gain, and it is the
\* one screenAudioSourceRef holds.
C14_OneSecondarySource ==
    /\ Cardinality(ConnectedScreenSources) <= 1
    /\ ConnectedScreenSources \subseteq {screenAudioSourceRef}

\* A second secondary source replaced the first one in the same session.
C14_Witness ==
    /\ Len(screenNodes) = 2
    /\ screenNodes[1].ctx = screenNodes[2].ctx
    /\ ConnectedScreenSources = {2}

\* C15: hasSystemAudio is true exactly when a secondary source with a live
\* stream is connected in a running input context.
C15_HasSystemAudioIffLive == hasSystemAudio <=> LiveSecondary

\* C16: a step of screen sharing leaves the connections of the primary path
\* as they are, and every processor that got microphone blocks still gets them.
C16_PrimaryPathKept ==
    [][ScreenStep
         => /\ PrimaryPath' = PrimaryPath
            /\ \A s \in DOMAIN stage : CanCapture(s) => CanCapture(s)']_vars

\* A second secondary source was attached in a session whose processor gets
\* microphone blocks and has sent one.
C16_Witness ==
    /\ Len(screenNodes) = 2
    /\ \A n \in {1, 2} : screenNodes[n].ctx = 1
    /\ ConnectedScreenSources = {2}
    /\ CanCapture(1) /\ Len(sentLog) >= 1

\* C17: the step in which getUserMedia rejects leaves status DISCONNECTED and
\* the error message set; the step in which getDisplayMedia rejects sets the
\* error message, and a step of screen sharing (a failed connection of the
\* secondary source included) leaves status and the primary path as they are.
C17_AcquisitionFailures ==
    [][/\ (\E s \in DOMAIN stage : MicDenied(s))
            => status' = "DISCONNECTED" /\ error' = "Failed to Connect."
       /\ \A msg \in DisplayErrors :
            DisplayDenied(msg) => error' \in {msg, "Screen capture denied"} \ {""}
       /\ ScreenStep => status' = status /\ PrimaryPath' = PrimaryPath]_vars

\* The microphone was denied to one invocation; later, in a connected
\* session, the display capture was denied.
C17_Witness ==
    /\ \E s \in DOMAIN stage : stage[s] = "failed"
    /\ error = "Screen capture denied"
    /\ status = "CONNECTED"

(***************************************************************************)
(* Properties of the failure paths of onmessage.                           *)
(***************************************************************************)
\* A step in which onmessage reaches decodeAudio with a string that is not
\* base64: at once when the message has no tool call, after its last tool
\* call otherwise.
BadFrameStep ==
    \/ \E m \in Messages : m.audio = "bad" /\ m.toolCalls = 0 /\ OnMessage(m)
    \/ /\ microtasks # <<>>
       /\ Head(microtasks).pc = "tool"
       /\ Head(microtasks).left <= 1
       /\ Head(microtasks).msg.audio = "bad"
       /\ Resume

\* C18: a step that handles a frame with an invalid encoding adds no unit and
\* leaves the cursor and the gain of the secondary source as they are.
C18_BadFrameIsolated ==
    [][BadFrameStep
         => /\ audioSourcesRef' = audioSourcesRef
            /\ sources' = sources
            /\ nextStartTimeRef' = nextStartTimeRef
            /\ systemGainRef' = systemGainRef]_vars

\* C19: a step in which the start of a source is rejected leaves the Set, the
\* speaking indicator and the cursor as they are, and the source is not in
\* the Set.
C19_RejectedStartDropped ==
    [][ResumeRejected
         => /\ audioSourcesRef' = audioSourcesRef
            /\ Head(microtasks).id \notin audioSourcesRef'
            /\ isModelSpeaking' = isModelSpeaking
            /\ nextStartTimeRef' = nextStartTimeRef]_vars

\* The start of one frame was rejected, and a later frame plays from the
\* cursor the rejected one left.
C19_Witness ==
    \E u, v \in DOMAIN sources :
        /\ sources[u].st = "rejected" /\ sources[v].st = "playing"
        /\ u < v /\ sources[v].when = sources[u].when
        /\ sources[v].when > 0
        /\ audioSourcesRef = {v}

(***************************************************************************)
(* Properties of decodeAudioData.                                          *)
(***************************************************************************)
\* The number of 16-bit samples in the bytes given to decodeAudioData.
TotalSamples == Len(decodeInput.data) \div 2

\* The call returned a buffer of whole frames, de-interleaved.
DecodedAsInterleaved ==
    LET data == decodeInput.data
        numChannels == decodeInput.numChannels
        buffer == decodeResult.buffer
    IN  /\ decodeResult.error = "none"
        /\ Len(buffer) = numChannels
        /\ \A c \in 1..numChannels :
             /\ Len(buffer[c]) * numChannels = TotalSamples
             /\ \A i \in 1..Len(buffer[c]) :
                  buffer[c][i] = Int16At(data, (i - 1) * numChannels + (c - 1))

\* C20: of a call on a whole number of 16-bit samples: when the number of
\* samples is not a multiple of the channel count the call fails with
\* FrameAlignmentError and gives no buffer; otherwise the buffer has
\* totalSamples / channels frames and sample i of channel c is the
\* interleaved sample i * channels + c, over 32768.
C20_DecodeAligned ==
    (decodeResult # NotDecoded /\ Len(decodeInput.data) % 2 = 0)
      => IF TotalSamples % decodeInput.numChannels # 0
         THEN decodeResult.error = "FrameAlignmentError" /\ decodeResult.buffer = <<>>
         ELSE DecodedAsInterleaved

(***************************************************************************)
(* Properties of encodeAudio / decodeAudio, createPcmBlob, downsampleTo16k.*)
(***************************************************************************)
\* C21: decodeAudio of encodeAudio of a byte sequence is that byte sequence,
\* whatever its length (0, a few bytes, one byte less than a chunk, a chunk,
\* one byte more than a chunk).
C21_RoundTrip ==
    utilResult.fn = "decodeAudio"
      => utilResult.out = [error |-> "none", bytes |-> utilArgs.bytes]

\* A buffer of one byte more than a chunk went through both functions.
C21_Witness ==
    /\ utilResult.fn = "decodeAudio"
    /\ Len(utilArgs.bytes) = ChunkSize + 1
    /\ Len(utilResult.out.bytes) = ChunkSize + 1

\* The samples the inbound decoder gives for the unit createPcmBlob made, as
\* numerators over 32768.
PcmDecoded == DecodeAudioData(DecodeAudio(utilResult.blob.data).bytes, 1).buffer[1]

\* C22: a sample f of [-1, 1] that went through createPcmBlob and the inbound
\* decoder comes back within 1/32768 of f.  (Both sides are counted in
\* 1/SampleDenominator, a multiple of 32768.)
C22_PcmRoundTrip ==
    utilResult.fn = "createPcmBlob"
      => \A i \in 1..Len(utilArgs.data) :
           LET f == utilArgs.data[i]
               step == SampleDenominator \div 32768
               d == PcmDecoded[i] * step - f
           IN  (-SampleDenominator <= f /\ f <= SampleDenominator)
                 => (-step <= d /\ d <= step)

\* C23: createPcmBlob gives 32767 for every sample above 1, -32768 for every
\* sample below -1, and a value of -32768..32767 produced without wrap-around
\* for every sample.
C23_PcmClamps ==
    utilResult.fn = "createPcmBlob"
      => \A i \in 1..Len(utilArgs.data) :
           LET f == utilArgs.data[i]
               v == PcmDecoded[i]
           IN  /\ f > SampleDenominator => v = 32767
               /\ f < -SampleDenominator => v = -32768
               /\ -32768 <= v /\ v <= 32767
               /\ (f >= 0 => v >= 0) /\ (f <= 0 => v <= 0)

\* A sample above 1 was converted.
C23_Witness ==
    /\ utilResult.fn = "createPcmBlob"
    /\ utilArgs.data[1] = MaxSample
    /\ PcmDecoded = <<32767>>

\* C24: the length of what downsampleTo16k returns is within 1 of
\* round(|S| * 16000 / r); it returns S itself when r is 16000, and a sequence
\* of length 0 for S of length 0.
C24_DownsampleLength ==
    utilResult.fn = "downsampleTo16k"
      => LET S == utilArgs.buffer
             r == utilArgs.inputRate
             d == Len(utilResult.out) - MathRound(Len(S) * 16000, r)
         IN  /\ -1 <= d /\ d <= 1
             /\ r = 16000 => utilResult.out = S
             /\ Len(S) = 0 => Len(utilResult.out) = 0

\* Five samples at 48000 Hz became two.
C24_Witness ==
    /\ utilResult.fn = "downsampleTo16k"
    /\ utilArgs.inputRate = 48000 /\ Len(utilArgs.buffer) = 5
    /\ Len(utilResult.out) = 2

(***************************************************************************)
(* Properties of the outbound units.                                       *)
(***************************************************************************)
\* C25: every unit sent carries samples at 16000 Hz, the rate of its tag.
C25_OutboundRate ==
    \A i \in 1..Len(sentLog) :
        /\ sentLog[i].mimeType = "audio/pcm;rate=16000"
        /\ sentLog[i].rate = TargetRate

(***************************************************************************)
(* Properties of the ducking controller.                                   *)
(***************************************************************************)
\* A step in which a suspended handler resumes after decodeAudioData and
\* starts its source.
StartStep ==
    /\ microtasks # <<>>
    /\ Head(microtasks).pc = "decode"
    /\ Resume

\* C26: the step that starts a unit while the Set is empty leaves on the
\* secondary gain one request alone: from the value the gain has at that
\* moment down to 0, 50 ms later.
C26_DuckOnFirstUnit ==
    [][(StartStep /\ audioSourcesRef = {})
         => LET now == clock[Head(microtasks).ctx]
            IN  /\ systemGainRef.node
                /\ systemGainRef' =
                     GainNode(GainValue(systemGainRef, now), 0, now, now + DuckRamp)]_vars

\* C27: the step in which a unit that played to its end leaves the Set: if the
\* Set is then empty, the secondary gain is left with a ramp to 0.7 ending
\* 200 ms later; otherwise the unit is removed and the gain is as before.
C27_RestoreOnLastUnit ==
    [][\A u \in DOMAIN sources :
         (sources[u].st = "playing" /\ u \in audioSourcesRef /\ Ended(u))
           => /\ audioSourcesRef' = audioSourcesRef \ {u}
              /\ IF audioSourcesRef' = {}
                 THEN LET now == clock[sources[u].ctx]
                      IN  /\ systemGainRef'.node
                          /\ RampTarget(systemGainRef') = NominalGain
                          /\ systemGainRef'.t0 = now
                          /\ systemGainRef'.t1 = now + RestoreRamp
                 ELSE systemGainRef' = systemGainRef]_vars

\* Playback is at rest: no unit is playing, the Set is empty, the speaking
\* indicator is off and the secondary gain, where there is one, is at or on
\* its way to 0.7.
AtRest ==
    /\ \A u \in DOMAIN sources : sources[u].st # "playing"
    /\ audioSourcesRef = {}
    /\ ~isModelSpeaking
    /\ systemGainRef.node => RampTarget(systemGainRef) = NominalGain

\* C28: when no interruption is delivered and the frames stop (only finitely
\* many arrive), playback eventually comes to rest and stays there, provided
\* time passes and the 'ended' events that are due are dispatched.
C28_EventuallyAtRest == <>[]AtRest

\* Two units played to their end and the listener of the last one scheduled
\* the restore ramp.
C28_Witness ==
    /\ AtRest
    /\ interruptedAt = 0
    /\ Len(schedLog) = 1 /\ schedLog[1].frame >= 2
    /\ systemGainRef.node
    /\ systemGainRef.v0 = 0
    /\ systemGainRef.t1 = systemGainRef.t0 + RestoreRamp

NoAudioStep ==
    \/ \E m \in Messages : ~m.interrupted /\ m.audio = "none" /\ OnMessage(m)
    \/ /\ microtasks # <<>>
       /\ Head(microtasks).pc = "tool"
       /\ Head(microtasks).msg.audio = "none"
       /\ Resume

\* C30: a step that handles a message without audio and without the
\* interruption flag leaves the Set, the cursor and the secondary gain as they
\* are.
C30_NoAudioNoEffect ==
    [][NoAudioStep
         => /\ audioSourcesRef' = audioSourcesRef
            /\ sources' = sources
            /\ nextStartTimeRef' = nextStartTimeRef
            /\ systemGainRef' = systemGainRef]_vars

\* A message with a function call and no audio has arrived, and its handler
\* is suspended, while a unit is playing and the duck ramp is pending.
C30_Witness ==
    /\ microtasks # <<>>
    /\ Head(microtasks).pc = "tool"
    /\ Head(microtasks).msg.audio = "none"
    /\ audioSourcesRef # {}
    /\ nextStartTimeRef > 0
    /\ systemGainRef.node
    /\ PendingRamps(systemGainRef) = 1

(***************************************************************************)
(* Properties of late events and of restarts.                              *)
(***************************************************************************)
\* C31: the 'ended' event of a unit that was stopped by an interruption or by
\* stopSession changes neither the speaking indicator nor the secondary gain.
C31_StaleEndedNoEffect ==
    [][\A u \in DOMAIN sources :
         (sources[u].st = "stopped" /\ Ended(u))
           => /\ isModelSpeaking' = isModelSpeaking
              /\ systemGainRef' = systemGainRef]_vars

\* A step that starts the first unit of context pair c: the handler at the
\* head of the queue was suspended on c and no unit was started on c before
\* (handlers run in arrival order and the pairs are numbered in order of
\* creation).
FirstStartOn(c) ==
    /\ StartStep
    /\ Head(microtasks).ctx = c
    /\ schedLog # <<>> => schedLog[Len(schedLog)].ctx < c

\* C32: in a session started after stopSession closed the one before, with
\* the new output clock running and no interruption delivered, the first
\* unit starts 0.05 s after the time the clock had at the frame's cursor
\* check.
C32_FirstFrameAfterRestart ==
    [][\A c \in DOMAIN clock :
         (/\ c > 1
          /\ \A d \in 1..(c - 1) : d \in closedCtx /\ stage[d] = "closed"
          /\ FirstStartOn(c)
          /\ interruptedAt = 0
          /\ Head(microtasks).checkNow > 0)
           => sources'[Head(microtasks).id].when
                = Head(microtasks).checkNow + Lookahead]_vars

\* C33: while the status is DISCONNECTED no context pair, mixer or secondary
\* gain node is held.
C33_NothingHeldWhenDisconnected ==
    status = "DISCONNECTED"
      => /\ audioContextRef = 0
         /\ mixerRef = 0
         /\ ~systemGainRef.node

\* C34: the arrival of a message with the interruption flag, whatever else
\* the message carries, only interrupts: the units of the Set are stopped,
\* the cursor is 0, no handler is suspended for the message (no function call
\* is awaited, nothing is decoded) and no unit is started.
C34_InterruptionOnly ==
    [][\A m \in Messages :
         (arrivals' = arrivals + 1 /\ m.interrupted /\ OnMessage(m))
           => /\ microtasks' = microtasks
              /\ schedLog' = schedLog
              /\ DOMAIN sources' = DOMAIN sources
              /\ audioSourcesRef' = {}
              /\ nextStartTimeRef' = InterruptedCursor
              /\ ~isModelSpeaking'
              /\ interruptedAt' = arrivals']_vars

\* An interruption was the last message handled; it arrived while the
\* handler of an earlier frame was suspended and a unit was playing.
C34_Witness ==
    /\ interruptedAt = arrivals /\ interruptedAt > 2
    /\ microtasks # <<>>
    /\ Head(microtasks).id < interruptedAt
    /\ StoppedSources # {}
    /\ audioSourcesRef = {} /\ nextStartTimeRef = 0

(***************************************************************************)
(* Properties of the capture side under cancellation.                      *)
(***************************************************************************)
\* C35: every stream getDisplayMedia has delivered was reported through
\* onStreamStarted or has its tracks stopped; a stream delivered to a run of
\* the effect that was cleaned up while its request was pending has its
\* tracks stopped, was never reported, is not the recorded stream and has no
\* source node.
C35_CancelledCaptureStopped ==
    \A i \in DOMAIN displayStreams :
        LET d == displayStreams[i]
        IN  /\ d.reported \/ ~d.live
            /\ d.cancelled
                 => /\ ~d.live
                    /\ ~d.reported
                    /\ screenStreamRef # i
                    /\ \A n \in DOMAIN screenNodes : screenNodes[n].stream # i

\* The share button was turned off while the request was pending and on
\* again; the first stream arrived and was stopped, the second one is shared.
C35_Witness ==
    /\ Len(displayStreams) = 2
    /\ displayStreams[1].cancelled /\ ~displayStreams[1].live
    /\ displayStreams[2].reported /\ displayStreams[2].live
    /\ capture.pc = "streaming" /\ capture.stream = 2
    /\ screenStreamRef = 2

\* C36: a capture callback sends a unit only for an invocation whose
\* connection is open: once stopSession has closed the session of an
\* invocation, no unit of that invocation is sent.
C36_NoSendAfterStop ==
    [][\A s \in DOMAIN stage :
         OnAudioProcess(s) => stage[s] = "open"]_vars

====
